---- MODULE Spec2Model ----
(***************************************************************************)
(* Heading-aware chunking of the summariser scripts (src/summd-mlx.py,     *)
(* src/summd.py): the line classifier (class Line), the chapter segmenter  *)
(* (split_by_heading), the block grouper (group_sections, split_block) and *)
(* the batch driver (main, process_dir, process_path).                     *)
(*                                                                         *)
(* A Python string is a sequence of one-character strings; a list is a     *)
(* sequence.  None is a value distinct from every string.                  *)
(***************************************************************************)
EXTENDS Integers, Sequences, FiniteSets, TLC

VARIABLES
    \* split_by_heading (src/summd-mlx.py:125-159)
    text,                  \* the lines the generator has taken from its input so far
    max_level,             \* argument max_level
    curr_parent_headings,  \* list of MAX_HEADING_LEVEL titles or None
    curr_heading_line,     \* Line or NoLine
    curr_lines,            \* lines of the chapter being accumulated
    within_fence,          \* fence state
    chapters,              \* the chapters yielded so far, in yield order
    spc,                   \* position of the generator: "idle", "loop", "done"
    \* Line (src/summd-mlx.py:170-208)
    line,                  \* the object under construction / constructed
    lpc,                   \* "idle", "new", "done"
    \* group_sections (src/summd-mlx.py:81-123, src/summd.py:74-113)
    NUM_CTX, BLOCKSIZE, MIN_BLOCKSIZE,   \* module globals, rebound by main()
    sections,              \* the chapter texts the loop has taken so far
    blocksize,             \* argument blocksize
    groups,                \* list of completed blocks
    curr_group,            \* the current block
    appended,              \* curr_group right after the last curr_group += s
    gpc,                   \* "idle", "main", "call", "loop", "done", "raised"
    \* main / process_dir / process_path
    todo,                  \* command-line paths not yet visited
    walk,                  \* files of the directory being walked, not yet visited
    log,                   \* what happened to each file, in order
    bpc,                   \* "idle", "main", "exit", "raised"
    \* summarize (src/summd-mlx.py:210-283)
    text_chunks,           \* the blocks returned by group_sections
    summarize_recursively, \* argument summarize_recursively
    accumulated_summaries, \* list of the summaries returned so far
    calls,                 \* the user messages given to generate, in call order
    pending,               \* the user message of the call in progress, or None
    final_summary,         \* the value returned, or None
    mpc,                   \* "idle", "loop", "done", "raised"
    \* split_block (src/summd-mlx.py:68-79)
    block,                 \* argument block
    limit,                 \* argument blocksize
    rem_block,             \* the text not yet split
    pieces,                \* the local list groups
    kpc,                   \* "idle", "loop", "done"
    \* chunk_on_delimiter / combine_chunks_with_no_minimum (src/summlong.py:15-69)
    chunks,                \* input_string.split(delimiter)
    max_chunksize,         \* argument max_chunksize
    output,                \* list of the combined chunks
    output_indices,        \* the indices of the chunks of each combined chunk
    candidate,             \* the parts of the combined chunk being built
    candidate_indices,     \* their indices
    dropped_chunk_count,   \* the count returned as dropped
    chunk_i,               \* index of the next chunk of the for loop
    combined_chunks,       \* the list chunk_on_delimiter returns
    warned,                \* chunk_on_delimiter printed its warning
    cpc                    \* "idle", "loop", "done"

vars == <<text, max_level, curr_parent_headings, curr_heading_line, curr_lines,
          within_fence, chapters, spc, line, lpc,
          NUM_CTX, BLOCKSIZE, MIN_BLOCKSIZE, sections, blocksize, groups,
          curr_group, appended, gpc, todo, walk, log, bpc,
          text_chunks, summarize_recursively, accumulated_summaries, calls,
          pending, final_summary, mpc, block, limit, rem_block, pieces, kpc,
          chunks, max_chunksize, output, output_indices, candidate,
          candidate_indices, dropped_chunk_count, chunk_i, combined_chunks,
          warned, cpc>>

segVars   == <<text, max_level, curr_parent_headings, curr_heading_line,
               curr_lines, within_fence, chapters, spc>>
lineVars  == <<line, lpc>>
groupVars == <<NUM_CTX, BLOCKSIZE, MIN_BLOCKSIZE, sections, blocksize, groups,
               curr_group, appended, gpc>>
batchVars == <<todo, walk, log, bpc>>
summVars  == <<text_chunks, summarize_recursively, accumulated_summaries,
               calls, pending, final_summary, mpc>>
splitVars == <<block, limit, rem_block, pieces, kpc>>
combVars  == <<chunks, max_chunksize, output, output_indices, candidate,
               candidate_indices, dropped_chunk_count, chunk_i, combined_chunks,
               warned, cpc>>

-----------------------------------------------------------------------------
(* Bounds of the model *)

MaxLines == 4        \* longest input of split_by_heading, in lines
MaxLineLen == 7      \* longest line given to Line(), in characters
MaxSections == 3     \* most chapter texts given to group_sections
MaxSecLen == 4       \* longest chapter text, in characters
MaxTotal == 5        \* most characters given to group_sections in all
MaxPaths == 2        \* most paths on the command line
MaxDirFiles == 2     \* most files in a directory
MaxChunks == 3       \* most blocks given to the summarisation loop
MaxBlockLen == 6     \* longest text given to split_block, in characters
MaxCombChunks == 3   \* most chunks given to combine_chunks_with_no_minimum
MaxChunkLen == 5     \* longest such chunk, in characters

-----------------------------------------------------------------------------
(* Python values and string methods *)

None == <<"None">>
NL == "\n"
TAB == "\t"
\* the grave accent character (U+0060), which a TLA+ string cannot hold
BQ == "bq"
Whitespace == {" ", TAB, NL}

Min(a, b) == IF a < b THEN a ELSE b

RECURSIVE Repeat(_, _)
Repeat(c, n) == IF n = 0 THEN <<>> ELSE <<c>> \o Repeat(c, n - 1)

\* s.startswith(prefix)
startswith(s, prefix) ==
    /\ Len(s) >= Len(prefix)
    /\ SubSeq(s, 1, Len(prefix)) = prefix

\* s.lstrip(): drop leading whitespace
RECURSIVE lstrip(_)
lstrip(s) ==
    IF s # <<>> /\ Head(s) \in Whitespace THEN lstrip(Tail(s)) ELSE s

\* s.rstrip(chars): drop trailing characters that are in chars
RECURSIVE rstrip(_, _)
rstrip(s, chars) ==
    IF s # <<>> /\ s[Len(s)] \in chars
    THEN rstrip(SubSeq(s, 1, Len(s) - 1), chars)
    ELSE s

\* s.strip()
strip(s) == rstrip(lstrip(s), Whitespace)

\* the longest prefix of s made of the character c: what a greedy c+ or c*
\* takes first
RECURSIVE Run(_, _)
Run(s, c) == IF s # <<>> /\ Head(s) = c THEN 1 + Run(Tail(s), c) ELSE 0

\* what a greedy .* takes: everything up to the first line terminator
RECURSIVE DotStar(_)
DotStar(s) ==
    IF s # <<>> /\ Head(s) # NL THEN <<Head(s)>> \o DotStar(Tail(s)) ELSE <<>>

-----------------------------------------------------------------------------
(* class Line *)

FENCES == { <<BQ, BQ, BQ>>, <<"~", "~", "~">> }
MAX_HEADING_LEVEL == 6

\* re.search("^[ ]{0,3}(#+)(.*)", line): the greedy [ ]{0,3} tries 3, 2, 1, 0
\* spaces (at most as many as the line starts with) and the match succeeds
\* with the first count that is followed by a '#'.  The result is None or
\* the pair of groups <<result[1], result[2]>>.
HeadingIndents(l) ==
    { k \in 0..Min(3, Run(l, " ")) : Len(l) > k /\ l[k + 1] = "#" }

HeadingMatch(l) ==
    IF HeadingIndents(l) = {} THEN None
    ELSE LET k == CHOOSE i \in HeadingIndents(l) :
                      \A j \in HeadingIndents(l) : j <= i
             rest == SubSeq(l, k + 1, Len(l))
             n == Run(rest, "#")
         IN  << SubSeq(rest, 1, n), DotStar(SubSeq(rest, n + 1, Len(rest))) >>

\* _detect_heading without the limit of MAX_HEADING_LEVEL on the '#' run
_detect_heading_nolimit(l) ==
    LET result == HeadingMatch(l) IN
    IF result # None
    THEN LET title == result[2] IN
         IF Len(title) > 0
            /\ ~(startswith(title, <<" ">>) \/ startswith(title, <<TAB>>))
         THEN <<0, None>>
         ELSE <<Len(result[1]),
                rstrip(rstrip(strip(title), {"#"}), Whitespace)>>
    ELSE <<0, None>>

\* _detect_heading without the last rstrip() of the title
_detect_heading_one_rstrip(l) ==
    LET result == HeadingMatch(l) IN
    IF result # None /\ Len(result[1]) <= MAX_HEADING_LEVEL
    THEN LET title == result[2] IN
         IF Len(title) > 0
            /\ ~(startswith(title, <<" ">>) \/ startswith(title, <<TAB>>))
         THEN <<0, None>>
         ELSE <<Len(result[1]), rstrip(strip(title), {"#"})>>
    ELSE <<0, None>>

\* Line._detect_heading: the pair <<heading_level, heading_title>>
_detect_heading(l) ==
    LET result == HeadingMatch(l) IN
    IF result # None /\ Len(result[1]) <= MAX_HEADING_LEVEL
    THEN LET title == result[2] IN
         IF Len(title) > 0
            /\ ~(startswith(title, <<" ">>) \/ startswith(title, <<TAB>>))
         THEN <<0, None>>
         ELSE <<Len(result[1]),
                rstrip(rstrip(strip(title), {"#"}), Whitespace)>>
    ELSE <<0, None>>

\* Line.__init__
Line(l) ==
    [full_line     |-> l,
     heading_level |-> _detect_heading(l)[1],
     heading_title |-> _detect_heading(l)[2]]

\* a fence test that skips leading whitespace
is_fence_trimmed(ln) ==
    \E fence \in FENCES : startswith(lstrip(ln.full_line), fence)

\* Line.is_fence
is_fence(ln) == \E fence \in FENCES : startswith(ln.full_line, fence)

\* Line.is_heading
is_heading(ln) == ln.heading_level > 0

\* curr_heading_line = None
NoLine == [full_line |-> None, heading_level |-> 0, heading_title |-> None]

-----------------------------------------------------------------------------
(* split_by_heading *)

\* a chapter whose text leaves out the heading line
Chapter_body_only(parent_headings, heading, txt) ==
    [parent_headings |-> parent_headings, heading |-> heading,
     text |-> IF heading.heading_level > 0 THEN Tail(txt) ELSE txt]

Chapter(parent_headings, heading, txt) ==
    [parent_headings |-> parent_headings, heading |-> heading, text |-> txt]

SelectSeqNotNone(s) == SelectSeq(s, LAMBDA h : h # None)

\* __get_parents
__get_parents(parent_headings, heading_line) ==
    IF heading_line = NoLine THEN <<>>
    ELSE LET level == heading_line.heading_level
             trunc == SubSeq(parent_headings, 1, Min(level - 1, Len(parent_headings)))
         IN  SelectSeqNotNone(trunc)

\* the test without the fence state
is_chapter_finished_no_fence(fence, next_line, maxlvl) ==
    /\ is_heading(next_line)
    /\ next_line.heading_level <= maxlvl

\* the test without max_level
is_chapter_finished_any_level(fence, next_line, maxlvl) ==
    /\ ~fence
    /\ is_heading(next_line)

\* the test of src/summd-mlx.py:140-142, fence being the state after the toggle
is_chapter_finished(fence, next_line, maxlvl) ==
    /\ ~fence
    /\ is_heading(next_line)
    /\ next_line.heading_level <= maxlvl

\* recording a heading without clearing the deeper levels
RecordHeading_keep_deeper(parent_headings, heading_line) ==
    IF heading_line.heading_level = 0 THEN parent_headings
    ELSE [parent_headings EXCEPT ![heading_line.heading_level] =
                                      heading_line.heading_title]

\* curr_parent_headings after the chapter headed by heading_line was yielded
\* (src/summd-mlx.py:148-152)
RecordHeading(parent_headings, heading_line) ==
    IF heading_line = NoLine THEN parent_headings
    ELSE LET curr_level == heading_line.heading_level IN
         [i \in 1..MAX_HEADING_LEVEL |->
             IF i = curr_level THEN heading_line.heading_title
             ELSE IF i > curr_level THEN None
             ELSE parent_headings[i]]

\* The lines the model feeds to the segmenter: headings of level 1 with
\* two titles, headings of levels 2 and 3, a heading of level 4 with a
\* title of its own, an empty heading, both fence markers and a plain
\* line, which is a fence marker behind one space.
Titles == {"A", "B"}
SegLines ==
    { <<"#", " ", t>> : t \in Titles }
    \cup { Repeat("#", n) \o <<" ", "A">> : n \in 2..3 }
    \cup { Repeat("#", 4) \o <<" ", "D">>, <<"#">>,
           <<BQ, BQ, BQ>>, <<"~", "~", "~">>, <<" ", BQ, BQ, BQ>> }
MaxLevels == {2, 3}

SegIdle ==
    /\ text = <<>> /\ max_level = 0
    /\ curr_parent_headings = <<>> /\ curr_heading_line = NoLine
    /\ curr_lines = <<>> /\ within_fence = FALSE /\ chapters = <<>>
    /\ spc = "idle"
LineIdle == line = NoLine /\ lpc = "idle"
GroupIdle ==
    /\ NUM_CTX = 0 /\ BLOCKSIZE = 0 /\ MIN_BLOCKSIZE = 0
    /\ sections = <<>> /\ blocksize = 0 /\ groups = <<>> /\ curr_group = <<>>
    /\ appended = <<>>
    /\ gpc = "idle"
BatchIdle == todo = <<>> /\ walk = <<>> /\ log = <<>> /\ bpc = "idle"
SummIdle ==
    /\ text_chunks = <<>> /\ summarize_recursively = FALSE
    /\ accumulated_summaries = <<>> /\ calls = <<>> /\ pending = None
    /\ final_summary = None /\ mpc = "idle"
SplitIdle ==
    /\ block = <<>> /\ limit = 0 /\ rem_block = <<>> /\ pieces = <<>>
    /\ kpc = "idle"
CombIdle ==
    /\ chunks = <<>> /\ max_chunksize = 0 /\ output = <<>>
    /\ output_indices = <<>> /\ candidate = <<>> /\ candidate_indices = <<>>
    /\ dropped_chunk_count = 0 /\ chunk_i = 0 /\ combined_chunks = <<>>
    /\ warned = FALSE /\ cpc = "idle"

\* split_by_heading(text, max_level) up to its first line (summd-mlx.py:130-133)
SegInit ==
    /\ text = <<>>
    /\ max_level \in MaxLevels
    /\ curr_parent_headings = [i \in 1..MAX_HEADING_LEVEL |-> None]
    /\ curr_heading_line = NoLine
    /\ curr_lines = <<>>
    /\ within_fence = FALSE
    /\ chapters = <<>>
    /\ spc = "loop"

\* one iteration of the for loop, on the next line l of the input
\* (summd-mlx.py:134-157)
ScanLine(l) ==
    /\ spc = "loop"
    /\ Len(text) < MaxLines
    /\ LET next_line == Line(l)
           fence == IF is_fence(next_line) THEN ~within_fence ELSE within_fence
           finished == is_chapter_finished(fence, next_line, max_level)
           yields == finished /\ Len(curr_lines) > 0
       IN  /\ text' = Append(text, l)
           /\ within_fence' = fence
           /\ chapters' =
                 IF yields
                 THEN Append(chapters,
                             Chapter(__get_parents(curr_parent_headings, curr_heading_line),
                                     curr_heading_line, curr_lines))
                 ELSE chapters
           /\ curr_parent_headings' =
                 IF yields THEN RecordHeading(curr_parent_headings, curr_heading_line)
                 ELSE curr_parent_headings
           /\ curr_heading_line' = IF finished THEN next_line ELSE curr_heading_line
           /\ curr_lines' = IF finished THEN <<l>> ELSE Append(curr_lines, l)
    /\ UNCHANGED <<max_level, spc>>
    /\ UNCHANGED <<lineVars, groupVars, batchVars, summVars, splitVars, combVars>>

\* the input is exhausted: the last chapter is yielded (summd-mlx.py:158-159)
EndOfText ==
    /\ spc = "loop"
    /\ chapters' = Append(chapters,
                          Chapter(__get_parents(curr_parent_headings, curr_heading_line),
                                  curr_heading_line, curr_lines))
    /\ spc' = "done"
    /\ UNCHANGED <<text, max_level, curr_parent_headings, curr_heading_line,
                   curr_lines, within_fence>>
    /\ UNCHANGED <<lineVars, groupVars, batchVars, summVars, splitVars, combVars>>

-----------------------------------------------------------------------------
(* Line(line) on its own *)

LineChars == {" ", TAB, "#", "a"}
LineStrings == UNION { [1..n -> LineChars] : n \in 0..MaxLineLen }

LineInit == line = NoLine /\ lpc = "new"

\* Line.__init__ (summd-mlx.py:182-184)
NewLine(l) ==
    /\ lpc = "new"
    /\ line' = Line(l)
    /\ lpc' = "done"
    /\ UNCHANGED <<segVars, groupVars, batchVars, summVars, splitVars, combVars>>

InitLine == SegIdle /\ LineInit /\ GroupIdle /\ BatchIdle /\ SummIdle /\ SplitIdle /\ CombIdle
NextLine == lpc = "new" /\ \E l \in LineStrings : NewLine(l)
SpecLine == InitLine /\ [][NextLine]_vars

-----------------------------------------------------------------------------
(* group_sections and split_block of src/summd-mlx.py *)

\* NUM_CTX of summd-mlx.py:26, scaled down from 8192 to a size whose strings
\* can be enumerated
DEFAULT_NUM_CTX == 2
\* int(NUM_CTX * 1.5) and int(NUM_CTX / 2) (summd-mlx.py:36-37, 391-392)
BlockSizeOf(ctx) == (ctx * 3) \div 2
MinBlockSizeOf(ctx) == ctx \div 2
\* blocksize=BLOCKSIZE in the def lines 68 and 81: the value BLOCKSIZE has
\* when the module is loaded
DEFAULT_BLOCKSIZE == BlockSizeOf(DEFAULT_NUM_CTX)

\* s.rfind(c, start, end) with 0 <= start, 0 <= end: a 0-based index or -1
rfind(s, c, start, end) ==
    LET hits == { i \in start..(Min(end, Len(s)) - 1) : s[i + 1] = c }
    IN  IF hits = {} THEN -1
        ELSE CHOOSE i \in hits : \A j \in hits : j <= i

\* s[a:b] and s[a:] for 0 <= a, 0 <= b
Slice(s, a, b) == SubSeq(s, a + 1, Min(b, Len(s)))
SliceFrom(s, a) == SubSeq(s, a + 1, Len(s))

RECURSIVE split_block(_, _)
\* split_block resuming one character too late after a cut
split_block_skip(rem, bsize) ==
    IF Len(rem) > 0
    THEN LET split_index == rfind(rem, NL, 0, bsize) IN
         IF split_index # -1
         THEN <<Slice(rem, 0, split_index)>>
              \o split_block(SliceFrom(rem, split_index + 2), bsize)
         ELSE <<rem>>
    ELSE <<>>

\* an iteration that cuts at the limit when the window has no newline
split_iter_hard_cut(rem, bsize) ==
    LET split_index == rfind(rem, NL, 0, bsize) IN
    IF split_index # -1
    THEN [piece |-> Slice(rem, 0, split_index),
          rest  |-> SliceFrom(rem, split_index + 1)]
    ELSE [piece |-> Slice(rem, 0, bsize), rest |-> SliceFrom(rem, bsize)]

\* an iteration that leaves the newline it cut at in the remaining text
split_iter_keep_newline(rem, bsize) ==
    LET split_index == rfind(rem, NL, 0, bsize) IN
    IF split_index # -1
    THEN [piece |-> Slice(rem, 0, split_index),
          rest  |-> SliceFrom(rem, split_index)]
    ELSE [piece |-> rem, rest |-> <<>>]

\* one iteration of the while loop of split_block on a non-empty rem
\* (summd-mlx.py:72-78): the piece appended and the new rem_block
split_iter(rem, bsize) ==
    LET split_index == rfind(rem, NL, 0, bsize) IN
    IF split_index # -1
    THEN [piece |-> Slice(rem, 0, split_index),
          rest  |-> SliceFrom(rem, split_index + 1)]
    ELSE [piece |-> rem, rest |-> <<>>]

\* split_block(block, blocksize): the list groups (summd-mlx.py:68-79)
split_block(rem, bsize) ==
    IF Len(rem) > 0
    THEN <<split_iter(rem, bsize).piece>>
         \o split_block(split_iter(rem, bsize).rest, bsize)
    ELSE <<>>

\* a current block that is never emptied when it is flushed
AfterAppend_no_reset(curr, s, bsize, minsize) == curr \o s

\* curr_group after the curr_group += s of one iteration
\* (summd-mlx.py:100-104, 111)
AfterAppend(curr, s, bsize, minsize) ==
    IF Len(curr \o s) > bsize /\ Len(curr) > minsize THEN s ELSE curr \o s

\* the body of the for loop of group_sections for one section s
\* (summd-mlx.py:100-111): the pair <<groups, curr_group>> after it
GroupBody(grps, curr, s, bsize, minsize) ==
    IF Len(curr \o s) > bsize
    THEN LET flush == Len(curr) > minsize
             grps1 == IF flush THEN Append(grps, curr) ELSE grps
             curr1 == AfterAppend(curr, s, bsize, minsize)
         IN  IF Len(curr1) > bsize
             THEN LET grps2 == grps1 \o split_block(curr1, DEFAULT_BLOCKSIZE)
                  IN  << SubSeq(grps2, 1, Len(grps2) - 1), grps2[Len(grps2)] >>
             ELSE << grps1, curr1 >>
    ELSE << grps, AfterAppend(curr, s, bsize, minsize) >>

\* the code after the loop (summd-mlx.py:114-123): the list returned
GroupFlush(grps, curr, minsize) ==
    IF curr # <<>>
    THEN IF Len(curr) < minsize
         THEN IF Len(grps) > 0
              THEN [grps EXCEPT ![Len(grps)] = @ \o curr]
              ELSE <<curr>>
         ELSE Append(grps, curr)
    ELSE grps

RECURSIVE Flatten(_)
Flatten(ss) == IF ss = <<>> THEN <<>> ELSE Head(ss) \o Flatten(Tail(ss))

SecChars == {"a", "b", NL}
SecStrings == UNION { [1..n -> SecChars] : n \in 0..MaxSecLen }
Contexts == {DEFAULT_NUM_CTX, 2 * DEFAULT_NUM_CTX}
BlockSizes == {DEFAULT_BLOCKSIZE - 1, DEFAULT_BLOCKSIZE}

\* the module as loaded (summd-mlx.py:26, 36, 37)
GroupInit ==
    /\ NUM_CTX = DEFAULT_NUM_CTX
    /\ BLOCKSIZE = BlockSizeOf(DEFAULT_NUM_CTX)
    /\ MIN_BLOCKSIZE = MinBlockSizeOf(DEFAULT_NUM_CTX)
    /\ sections = <<>> /\ blocksize = 0 /\ groups = <<>> /\ curr_group = <<>>
    /\ appended = <<>>
    /\ gpc = "main"

\* main() rebinds the globals from --context (summd-mlx.py:388-393)
Main(context) ==
    /\ gpc = "main"
    /\ NUM_CTX' = context
    /\ BLOCKSIZE' = BlockSizeOf(context)
    /\ MIN_BLOCKSIZE' = MinBlockSizeOf(context)
    /\ gpc' = "call"
    /\ UNCHANGED <<sections, blocksize, groups, curr_group, appended>>
    /\ UNCHANGED <<segVars, lineVars, batchVars, summVars, splitVars, combVars>>

\* group_sections(sections, blocksize=b) is entered (summd-mlx.py:81-91);
\* summarize calls it with the default (summd-mlx.py:233)
CallGroupSections(b) ==
    /\ gpc = "call"
    /\ blocksize' = b
    /\ groups' = <<>>
    /\ curr_group' = <<>>
    /\ gpc' = "loop"
    /\ UNCHANGED <<NUM_CTX, BLOCKSIZE, MIN_BLOCKSIZE, sections, appended>>
    /\ UNCHANGED <<segVars, lineVars, batchVars, summVars, splitVars, combVars>>

\* one iteration of the loop on the next section s (summd-mlx.py:94-111)
GroupSection(s) ==
    /\ gpc = "loop"
    /\ Len(sections) < MaxSections
    /\ Len(Flatten(sections)) + Len(s) <= MaxTotal
    /\ sections' = Append(sections, s)
    /\ groups' = GroupBody(groups, curr_group, s, blocksize, MIN_BLOCKSIZE)[1]
    /\ curr_group' = GroupBody(groups, curr_group, s, blocksize, MIN_BLOCKSIZE)[2]
    /\ appended' = AfterAppend(curr_group, s, blocksize, MIN_BLOCKSIZE)
    /\ UNCHANGED <<NUM_CTX, BLOCKSIZE, MIN_BLOCKSIZE, blocksize, gpc>>
    /\ UNCHANGED <<segVars, lineVars, batchVars, summVars, splitVars, combVars>>

\* the sections are exhausted (summd-mlx.py:113-123)
EndOfSections ==
    /\ gpc = "loop"
    /\ groups' = GroupFlush(groups, curr_group, MIN_BLOCKSIZE)
    /\ gpc' = "done"
    /\ UNCHANGED <<NUM_CTX, BLOCKSIZE, MIN_BLOCKSIZE, sections, blocksize, curr_group,
                    appended>>
    /\ UNCHANGED <<segVars, lineVars, batchVars, summVars, splitVars, combVars>>

InitGroup == SegIdle /\ LineIdle /\ GroupInit /\ BatchIdle /\ SummIdle /\ SplitIdle /\ CombIdle
NextGroup ==
    \/ \E c \in Contexts : Main(c)
    \/ \E b \in BlockSizes : CallGroupSections(b)
    \/ gpc = "loop" /\ \E s \in SecStrings : GroupSection(s)
    \/ EndOfSections
SpecGroup == InitGroup /\ [][NextGroup]_vars

-----------------------------------------------------------------------------
(* group_sections of src/summd.py *)

\* NUM_CTX of summd.py:26, scaled down from 8192; BLOCKSIZE = NUM_CTX * 1.5
\* and MIN_BLOCKSIZE = NUM_CTX / 2 (summd.py:30-31) are floats, whole numbers
\* for an even NUM_CTX
SummdScale == 2
SUMMD_NUM_CTX == 2 * SummdScale
SUMMD_BLOCKSIZE == (SUMMD_NUM_CTX * 3) \div 2
SUMMD_MIN_BLOCKSIZE == SUMMD_NUM_CTX \div 2
SummdBlockSizes == {SUMMD_BLOCKSIZE \div 2, SUMMD_BLOCKSIZE}

SummdInit ==
    /\ NUM_CTX = SUMMD_NUM_CTX
    /\ BLOCKSIZE = SUMMD_BLOCKSIZE
    /\ MIN_BLOCKSIZE = SUMMD_MIN_BLOCKSIZE
    /\ sections = <<>> /\ blocksize = 0 /\ groups = <<>> /\ curr_group = <<>>
    /\ appended = <<>>
    /\ gpc = "call"

\* group_sections(sections, blocksize=b) is entered (summd.py:74-84)
SummdCall(b) ==
    /\ gpc = "call"
    /\ blocksize' = b
    /\ groups' = <<>>
    /\ curr_group' = <<>>
    /\ gpc' = "loop"
    /\ UNCHANGED <<NUM_CTX, BLOCKSIZE, MIN_BLOCKSIZE, sections, appended>>
    /\ UNCHANGED <<segVars, lineVars, batchVars, summVars, splitVars, combVars>>

\* one iteration of the loop on the next section s (summd.py:87-104).
\* split_block(s) runs with its default blocksize, the float BLOCKSIZE, and
\* str.rfind raises TypeError on a float end index (summd.py:61-65, 98).
SummdSection(s) ==
    /\ gpc = "loop"
    /\ Len(sections) < MaxSections
    /\ Len(Flatten(sections)) + Len(s) <= MaxTotal
    /\ sections' = Append(sections, s)
    /\ IF Len(curr_group) + Len(s) > blocksize
       THEN /\ groups' = IF Len(curr_group) > 0 THEN Append(groups, curr_group)
                         ELSE groups
            /\ IF Len(s) > blocksize
               THEN curr_group' = <<>> /\ gpc' = "raised"
               ELSE curr_group' = s /\ gpc' = gpc
       ELSE /\ groups' = groups
            /\ curr_group' = curr_group \o <<NL>> \o s
            /\ gpc' = gpc
    /\ UNCHANGED <<NUM_CTX, BLOCKSIZE, MIN_BLOCKSIZE, blocksize, appended>>
    /\ UNCHANGED <<segVars, lineVars, batchVars, summVars, splitVars, combVars>>

\* the sections are exhausted (summd.py:106-113); groups[-1] of an empty
\* list raises IndexError
SummdEnd ==
    /\ gpc = "loop"
    /\ IF curr_group # <<>>
       THEN IF Len(curr_group) < MIN_BLOCKSIZE
            THEN IF Len(groups) > 0
                 THEN /\ groups' = [groups EXCEPT ![Len(groups)] =
                                                     @ \o <<NL>> \o curr_group]
                      /\ gpc' = "done"
                 ELSE /\ groups' = groups
                      /\ gpc' = "raised"
            ELSE /\ groups' = Append(groups, curr_group)
                 /\ gpc' = "done"
       ELSE /\ groups' = groups
            /\ gpc' = "done"
    /\ UNCHANGED <<NUM_CTX, BLOCKSIZE, MIN_BLOCKSIZE, sections, blocksize, curr_group,
                    appended>>
    /\ UNCHANGED <<segVars, lineVars, batchVars, summVars, splitVars, combVars>>

InitSummd == SegIdle /\ LineIdle /\ SummdInit /\ BatchIdle /\ SummIdle /\ SplitIdle /\ CombIdle
NextSummd ==
    \/ \E b \in SummdBlockSizes : SummdCall(b)
    \/ gpc = "loop" /\ \E s \in SecStrings : SummdSection(s)
    \/ SummdEnd
SpecSummd == InitSummd /\ [][NextSummd]_vars

-----------------------------------------------------------------------------
(* main, process_dir and process_path (summd-mlx.py:353-409,               *)
(* summd.py:330-363)                                                       *)

\* What process_path meets on a file: "unknown" extension or "existing"
\* output (it returns early), or it opens the file and calls output_md,
\* which returns ("ok") or raises ("fail": the file cannot be read, the
\* model call or the write fails).
Fates == {"unknown", "existing", "ok", "fail"}
FileLists == UNION { [1..n -> Fates] : n \in 0..MaxDirFiles }
PathEntries ==
    { [kind |-> "file", files |-> <<f>>] : f \in Fates }
    \cup { [kind |-> "dir", files |-> fs] : fs \in FileLists }
    \cup { [kind |-> "missing", files |-> <<>>] }
PathLists == UNION { [1..n -> PathEntries] : n \in 1..MaxPaths }

\* main() has parsed args.path (an empty command line is the directory
\* _markdown, summd-mlx.py:398-401)
BatchInit ==
    /\ todo \in PathLists
    /\ walk = <<>>
    /\ log = <<>>
    /\ bpc = "main"

\* process_path(path) (summd-mlx.py:353-368): the program counter after it.
\* No caller catches what output_md raises.
process_path(fate) == IF fate = "fail" THEN "raised" ELSE "main"

\* one iteration of the loop of main (summd-mlx.py:403-409)
NextPath ==
    /\ bpc = "main"
    /\ walk = <<>>
    /\ todo # <<>>
    /\ todo' = Tail(todo)
    /\ LET path == Head(todo) IN
       CASE path.kind = "file" ->
                /\ log' = Append(log, path.files[1])
                /\ bpc' = process_path(path.files[1])
                /\ walk' = walk
         [] path.kind = "dir" ->
                /\ walk' = path.files
                /\ log' = log
                /\ bpc' = bpc
         [] OTHER ->
                /\ log' = Append(log, "missing")
                /\ UNCHANGED <<walk, bpc>>
    /\ UNCHANGED <<segVars, lineVars, groupVars, summVars, splitVars, combVars>>

\* one iteration of the loop of process_dir (summd-mlx.py:370-374)
WalkFile ==
    /\ bpc = "main"
    /\ walk # <<>>
    /\ walk' = Tail(walk)
    /\ log' = Append(log, Head(walk))
    /\ bpc' = process_path(Head(walk))
    /\ UNCHANGED todo
    /\ UNCHANGED <<segVars, lineVars, groupVars, summVars, splitVars, combVars>>

\* main returns
BatchExit ==
    /\ bpc = "main"
    /\ walk = <<>>
    /\ todo = <<>>
    /\ bpc' = "exit"
    /\ UNCHANGED <<todo, walk, log>>
    /\ UNCHANGED <<segVars, lineVars, groupVars, summVars, splitVars, combVars>>

InitBatch == SegIdle /\ LineIdle /\ GroupIdle /\ BatchInit /\ SummIdle /\ SplitIdle /\ CombIdle
NextBatch == NextPath \/ WalkFile \/ BatchExit
SpecBatch == InitBatch /\ [][NextBatch]_vars

-----------------------------------------------------------------------------
(* split_block on its own *)

\* the texts and limits split_block is given: group_sections passes a
\* current block longer than its blocksize and leaves the limit to the
\* default (summd-mlx.py:106)
BlockStrings == UNION { [1..n -> SecChars] : n \in 1..MaxBlockLen }
Limits == {DEFAULT_BLOCKSIZE - 1, DEFAULT_BLOCKSIZE, DEFAULT_BLOCKSIZE + 1}

\* split_block(block, blocksize) up to the loop (summd-mlx.py:68-70)
SplitInit ==
    /\ block \in BlockStrings
    /\ limit \in Limits
    /\ rem_block = block
    /\ pieces = <<>>
    /\ kpc = "loop"

\* one iteration of the while loop (summd-mlx.py:71-78)
SplitIter ==
    /\ kpc = "loop"
    /\ Len(rem_block) > 0
    /\ pieces' = Append(pieces, split_iter(rem_block, limit).piece)
    /\ rem_block' = split_iter(rem_block, limit).rest
    /\ UNCHANGED <<block, limit, kpc>>
    /\ UNCHANGED <<segVars, lineVars, groupVars, batchVars, summVars, combVars>>

\* the loop is left and groups is returned (summd-mlx.py:71, 79)
SplitReturn ==
    /\ kpc = "loop"
    /\ Len(rem_block) = 0
    /\ kpc' = "done"
    /\ UNCHANGED <<block, limit, rem_block, pieces>>
    /\ UNCHANGED <<segVars, lineVars, groupVars, batchVars, summVars, combVars>>

InitSplit ==
    /\ SegIdle /\ LineIdle /\ GroupIdle /\ BatchIdle /\ SummIdle /\ SplitInit
    /\ CombIdle
NextSplit == SplitIter \/ SplitReturn
SpecSplit == InitSplit /\ [][NextSplit]_vars

\* the interpreter runs the loop of a call it has started: a call that can
\* take a step takes it
SpecSplitFair == SpecSplit /\ WF_vars(NextSplit)

-----------------------------------------------------------------------------
(* the summarisation loop of summarize (summd-mlx.py:245-283) *)

\* sep.join(list)
RECURSIVE join(_, _)
\* join that puts the parts in reverse order
join_reversed(sep, list) ==
    IF list = <<>> THEN <<>>
    ELSE IF Len(list) = 1 THEN list[1]
    ELSE list[Len(list)] \o sep \o join(sep, SubSeq(list, 1, Len(list) - 1))

join(sep, list) ==
    IF list = <<>> THEN <<>>
    ELSE IF Len(list) = 1 THEN list[1]
    ELSE list[1] \o sep \o join(sep, Tail(list))

\* the literal texts of the two f-strings, each as one character
PREVIOUS_SUMMARIES == "## Previous summaries:"
TEXT_TO_SUMMARIZE_NEXT == "## Text to summarize next:"
SUMMARISE == "<Summarise>"

\* the user message that leaves out all summaries but the last one
user_message_content_last_only(recursively, summaries, chunk) ==
    IF recursively /\ summaries # <<>>
    THEN <<PREVIOUS_SUMMARIES, NL, NL>> \o summaries[Len(summaries)]
         \o <<NL, NL, TEXT_TO_SUMMARIZE_NEXT, NL, NL>> \o chunk
    ELSE <<SUMMARISE, NL>> \o chunk

\* user_message_content (summd-mlx.py:247-253)
user_message_content(recursively, summaries, chunk) ==
    IF recursively /\ summaries # <<>>
    THEN <<PREVIOUS_SUMMARIES, NL, NL>> \o join(<<NL, NL>>, summaries)
         \o <<NL, NL, TEXT_TO_SUMMARIZE_NEXT, NL, NL>> \o chunk
    ELSE <<SUMMARISE, NL>> \o chunk

\* What generate returns for a prompt (summd-mlx.py:265): a text that
\* depends on the prompt and on the model, r being the model's choice.
Replies == {"r1", "r2"}
generate(prompt, r) == <<"summary(">> \o prompt \o <<")", r>>

ChunkTexts == { <<"a">>, <<"b">>, <<"a", NL, "b">> }
ChunkLists == UNION { [1..n -> ChunkTexts] : n \in 0..MaxChunks }

\* summarize up to the loop (summd-mlx.py:232-245)
SummInit ==
    /\ text_chunks \in ChunkLists
    /\ summarize_recursively \in BOOLEAN
    /\ accumulated_summaries = <<>>
    /\ calls = <<>>
    /\ pending = None
    /\ final_summary = None
    /\ mpc = "loop"

\* the loop body up to the call of generate, for the next chunk
\* (summd-mlx.py:246-265)
CallGenerate ==
    /\ mpc = "loop"
    /\ pending = None
    /\ Len(accumulated_summaries) < Len(text_chunks)
    /\ LET chunk == text_chunks[Len(accumulated_summaries) + 1]
           content == user_message_content(summarize_recursively,
                                           accumulated_summaries, chunk)
       IN  /\ pending' = content
           /\ calls' = Append(calls, content)
    /\ UNCHANGED <<text_chunks, summarize_recursively, accumulated_summaries,
                   final_summary, mpc>>
    /\ UNCHANGED <<segVars, lineVars, groupVars, batchVars, splitVars, combVars>>

\* generate returns and the summary is appended (summd-mlx.py:265-266)
GenerateReturns(r) ==
    /\ mpc = "loop"
    /\ pending # None
    /\ accumulated_summaries' = Append(accumulated_summaries, generate(pending, r))
    /\ pending' = None
    /\ UNCHANGED <<text_chunks, summarize_recursively, calls, final_summary, mpc>>
    /\ UNCHANGED <<segVars, lineVars, groupVars, batchVars, splitVars, combVars>>

\* generate raises: nothing in summarize catches it
GenerateRaises ==
    /\ mpc = "loop"
    /\ pending # None
    /\ pending' = None
    /\ mpc' = "raised"
    /\ UNCHANGED <<text_chunks, summarize_recursively, accumulated_summaries,
                   calls, final_summary>>
    /\ UNCHANGED <<segVars, lineVars, groupVars, batchVars, splitVars, combVars>>

\* the loop is over (summd-mlx.py:280-283)
ReturnSummary ==
    /\ mpc = "loop"
    /\ pending = None
    /\ Len(accumulated_summaries) = Len(text_chunks)
    /\ final_summary' = join(<<NL, NL>>, accumulated_summaries)
    /\ mpc' = "done"
    /\ UNCHANGED <<text_chunks, summarize_recursively, accumulated_summaries,
                   calls, pending>>
    /\ UNCHANGED <<segVars, lineVars, groupVars, batchVars, splitVars, combVars>>

InitSumm == SegIdle /\ LineIdle /\ GroupIdle /\ BatchIdle /\ SummInit /\ SplitIdle /\ CombIdle
NextSumm ==
    \/ CallGenerate
    \/ \E r \in Replies : GenerateReturns(r)
    \/ GenerateRaises
    \/ ReturnSummary
SpecSumm == InitSumm /\ [][NextSumm]_vars

-----------------------------------------------------------------------------
(* chunk_on_delimiter and combine_chunks_with_no_minimum (summlong.py:15-69) *)

\* the delimiter chunk_on_delimiter is given, and the ellipsis literal
DELIMITER == <<".">>
ELLIPSIS == <<".", ".", ".">>

\* chunk_on_delimiter passes add_ellipsis_for_overflow=True and no header
\* (summlong.py:18-20)
add_ellipsis_for_overflow == TRUE

\* the chunks are the parts of input_string between delimiters: there is at
\* least one and none contains the delimiter
CombChunkStrings == { Repeat("c", n) : n \in 0..MaxChunkLen }
CombChunkLists == UNION { [1..n -> CombChunkStrings] : n \in 1..MaxCombChunks }
ChunkSizes == {MaxChunkLen - 2, MaxChunkLen - 1}

\* chunk_on_delimiter has split its input and combine_chunks_with_no_minimum
\* is at the head of its loop (summlong.py:17, 35-42)
CombInit ==
    /\ chunks \in CombChunkLists
    /\ max_chunksize \in ChunkSizes
    /\ output = <<>> /\ output_indices = <<>>
    /\ candidate = <<>> /\ candidate_indices = <<>>
    /\ dropped_chunk_count = 0
    /\ chunk_i = 0
    /\ combined_chunks = <<>> /\ warned = FALSE
    /\ cpc = "loop"

\* one iteration of the for loop (summlong.py:42-63)
CombineChunk ==
    /\ cpc = "loop"
    /\ chunk_i < Len(chunks)
    /\ LET chunk == chunks[chunk_i + 1] IN
       IF Len(join(DELIMITER, <<chunk>>)) > max_chunksize
       THEN /\ IF /\ add_ellipsis_for_overflow
                  /\ Len(join(DELIMITER, Append(candidate, ELLIPSIS))) <= max_chunksize
               THEN /\ candidate' = Append(candidate, ELLIPSIS)
                    /\ dropped_chunk_count' = dropped_chunk_count + 1
               ELSE UNCHANGED <<candidate, dropped_chunk_count>>
            /\ UNCHANGED <<output, output_indices, candidate_indices>>
       ELSE /\ IF Len(join(DELIMITER, Append(candidate, chunk))) > max_chunksize
               THEN /\ output' = Append(output, join(DELIMITER, candidate))
                    /\ output_indices' = Append(output_indices, candidate_indices)
                    /\ candidate' = <<chunk>>
                    /\ candidate_indices' = <<chunk_i>>
               ELSE /\ candidate' = Append(candidate, chunk)
                    /\ candidate_indices' = Append(candidate_indices, chunk_i)
                    /\ UNCHANGED <<output, output_indices>>
            /\ UNCHANGED dropped_chunk_count
    /\ chunk_i' = chunk_i + 1
    /\ UNCHANGED <<chunks, max_chunksize, combined_chunks, warned, cpc>>
    /\ UNCHANGED <<segVars, lineVars, groupVars, batchVars, summVars, splitVars>>

\* the loop is over: the last candidate is added, the function returns and
\* chunk_on_delimiter warns and appends the delimiter to every combined
\* chunk (summlong.py:64-69, 21-24)
CombineReturn ==
    /\ cpc = "loop"
    /\ chunk_i = Len(chunks)
    /\ LET out == IF Len(candidate) > 0
                  THEN Append(output, join(DELIMITER, candidate))
                  ELSE output
       IN  /\ output' = out
           /\ combined_chunks' = [k \in 1..Len(out) |-> out[k] \o DELIMITER]
    /\ output_indices' = IF Len(candidate) > 0
                         THEN Append(output_indices, candidate_indices)
                         ELSE output_indices
    /\ warned' = (dropped_chunk_count > 0)
    /\ cpc' = "done"
    /\ UNCHANGED <<chunks, max_chunksize, candidate, candidate_indices,
                   dropped_chunk_count, chunk_i>>
    /\ UNCHANGED <<segVars, lineVars, groupVars, batchVars, summVars, splitVars>>

InitComb ==
    /\ SegIdle /\ LineIdle /\ GroupIdle /\ BatchIdle /\ SummIdle /\ SplitIdle
    /\ CombInit
NextComb == CombineChunk \/ CombineReturn
SpecComb == InitComb /\ [][NextComb]_vars

-----------------------------------------------------------------------------
(* split_by_heading on its own *)

Init == SegInit /\ LineIdle /\ GroupIdle /\ BatchIdle /\ SummIdle /\ SplitIdle /\ CombIdle

Next ==
    \/ \E l \in SegLines : ScanLine(l)
    \/ EndOfText

Spec == Init /\ [][Next]_vars

-----------------------------------------------------------------------------
(* Properties of split_by_heading (specification Spec) *)

\* the concatenation of the line lists of a sequence of chapters
RECURSIVE ChapterLines(_)
ChapterLines(chs) ==
    IF chs = <<>> THEN <<>> ELSE Head(chs).text \o ChapterLines(Tail(chs))

\* C1: at every point of the scan, the lines of the chapters yielded so far,
\* followed by the lines accumulated for the current chapter, are exactly
\* the input lines taken so far; once the generator is exhausted, the lines
\* of all yielded chapters, concatenated in yield order, are exactly the
\* input sequence of lines.
C1_RoundTrip ==
    /\ spc = "loop" => ChapterLines(chapters) \o curr_lines = text
    /\ spc = "done" => ChapterLines(chapters) = text

\* a finished scan that yielded three chapters, the first one without heading
C1_Witness ==
    /\ spc = "done"
    /\ Len(chapters) >= 3
    /\ chapters[1].heading = NoLine
    /\ Len(text) >= 4

\* the fence state after line j of txt (1-based): an odd number of fence
\* lines among the lines 1..j
IsFenceLine(l) == \E f \in FENCES : Len(l) >= 3 /\ <<l[1], l[2], l[3]>> = f
FenceAfter(txt, j) ==
    Cardinality({ i \in 1..j : IsFenceLine(txt[i]) }) % 2 = 1

\* C4: a line scanned while within_fence is true (before or after the
\* toggle of that line) never starts a chapter: nothing is yielded, the
\* current heading stays, and the line joins the body of the current
\* chapter; and until a fence line is scanned within_fence stays true.
C4_FenceSuppression ==
    [][ (spc = "loop" /\ text' # text /\ (within_fence \/ within_fence'))
        => /\ chapters' = chapters
           /\ curr_heading_line' = curr_heading_line
           /\ curr_lines' = Append(curr_lines, text'[Len(text')])
           /\ (within_fence /\ ~IsFenceLine(text'[Len(text')]) => within_fence')
      ]_vars

\* a heading of a level that would start a chapter was scanned inside a
\* fence that is still open, and joined the current chapter
C4_Witness ==
    /\ within_fence
    /\ Len(text) >= 2
    /\ Line(text[Len(text)]).heading_level \in 1..max_level
    /\ curr_lines[Len(curr_lines)] = text[Len(text)]
    /\ Len(curr_lines) >= 2

\* the parents the claim describes for chapter i of chs, for the levels
\* l..(level of chapter i)-1
RECURSIVE ParentsFrom(_, _, _)
ParentsFrom(chs, i, l) ==
    IF l >= chs[i].heading.heading_level THEN <<>>
    ELSE LET cand == { k \in 1..(i - 1) :
                         /\ chs[k].heading # NoLine
                         /\ chs[k].heading.heading_level = l
                         /\ \A m \in (k + 1)..(i - 1) :
                               chs[m].heading.heading_level >= l }
         IN  (IF cand = {} THEN <<>>
              ELSE LET k == CHOOSE x \in cand : \A y \in cand : y <= x
                   IN  <<chs[k].heading.heading_title>>)
             \o ParentsFrom(chs, i, l + 1)

\* C5: every yielded chapter with a heading of level L has as parent_headings,
\* for l = 1..L-1 in increasing order, the title of the most recent earlier
\* chapter heading of level l that is not followed, before this chapter, by
\* a chapter heading of a level below l; levels without one are skipped.
C5_ParentTracking ==
    \A i \in 1..Len(chapters) :
        chapters[i].heading # NoLine
            => chapters[i].parent_headings = ParentsFrom(chapters, i, 1)

\* '# A', '## B', '### x', '## y' : the third chapter has parents [A, B],
\* the fourth has [A]
C5_Witness ==
    /\ Len(chapters) >= 4
    /\ chapters[1].heading.heading_level = 1
    /\ chapters[2].heading.heading_level = 2
    /\ chapters[3].heading.heading_level = 3
    /\ chapters[4].heading.heading_level = 2
    /\ chapters[3].parent_headings = <<chapters[1].heading.heading_title,
                                       chapters[2].heading.heading_title>>
    /\ chapters[4].parent_headings = <<chapters[1].heading.heading_title>>
    /\ chapters[2].heading.heading_title # chapters[1].heading.heading_title

\* line j of txt is a chapter-starting heading: 0-3 spaces, 1..maxlvl '#',
\* then nothing or a space or tab, outside a fence
StartsChapter(txt, j, maxlvl) ==
    /\ ~FenceAfter(txt, j)
    /\ \E k \in 0..3, n \in 1..maxlvl :
          /\ Len(txt[j]) >= k + n
          /\ \A i \in 1..k : txt[j][i] = " "
          /\ \A i \in (k + 1)..(k + n) : txt[j][i] = "#"
          /\ Len(txt[j]) > k + n => txt[j][k + n + 1] \in {" ", TAB}

\* C7: when no line of the input is a chapter-starting heading, the
\* exhausted generator has yielded exactly one chapter, without heading,
\* without parents, holding the entire input.
C7_NoBoundary ==
    (spc = "done" /\ \A j \in 1..Len(text) : ~StartsChapter(text, j, max_level))
        => chapters = << [parent_headings |-> <<>>, heading |-> NoLine,
                           text |-> text] >>

\* an input with a heading deeper than max_level and a heading inside a
\* fence, yielded as one chapter
C7_Witness ==
    /\ spc = "done"
    /\ Len(chapters) = 1
    /\ chapters[1].heading = NoLine
    /\ \E j \in 1..Len(text) : Line(text[j]).heading_level > max_level
    /\ \E j \in 1..Len(text) :
          Line(text[j]).heading_level \in 1..max_level /\ FenceAfter(text, j)

-----------------------------------------------------------------------------
(* Properties of Line (specification SpecLine) *)

\* l is 0-3 spaces, then exactly n '#', then nothing or text that begins
\* with a space or a tab
IsATX(l, n) ==
    \E k \in 0..3 :
        /\ Len(l) >= k + n
        /\ \A i \in 1..k : l[i] = " "
        /\ \A i \in (k + 1)..(k + n) : l[i] = "#"
        /\ Len(l) > k + n => l[k + n + 1] \in {" ", TAB}

\* C6: heading_level is n in 1..6 exactly when the line is 0-3 spaces, a
\* maximal run of n '#', then nothing or text beginning with a space or tab;
\* otherwise heading_level is 0 and heading_title is absent.
C6_HeadingValidity ==
    lpc = "done" =>
        /\ \A n \in 1..MAX_HEADING_LEVEL :
              line.heading_level = n <=> IsATX(line.full_line, n)
        /\ (\A n \in 1..MAX_HEADING_LEVEL : ~IsATX(line.full_line, n))
              => line.heading_level = 0 /\ line.heading_title = None
        /\ line.heading_level \in 0..MAX_HEADING_LEVEL
        /\ line.heading_level > 0 => line.heading_title # None

\* a line of seven '#' was classified as not a heading
C6_Witness ==
    /\ lpc = "done"
    /\ line.full_line = Repeat("#", MAX_HEADING_LEVEL + 1)
    /\ line.heading_level = 0

-----------------------------------------------------------------------------
(* Properties of group_sections of src/summd-mlx.py (specification SpecGroup) *)

\* a string without its newline characters
StripNL(str) == SelectSeq(str, LAMBDA c : c # NL)

\* b occurs in str as a contiguous part
IsPartOf(b, str) ==
    \E a \in 0..(Len(str) - Len(b)) : SubSeq(str, a + 1, a + Len(b)) = b

\* C2: disregarding newlines, the completed blocks followed by the current
\* block are the concatenation of the chapter texts taken so far, and the
\* returned blocks are the concatenation of all chapter texts.
C2_ContentPreserved ==
    /\ gpc = "loop" =>
          StripNL(Flatten(groups) \o curr_group) = StripNL(Flatten(sections))
    /\ gpc = "done" => StripNL(Flatten(groups)) = StripNL(Flatten(sections))

\* a default call that returned several blocks after a cut dropped a newline
C2_Witness ==
    /\ gpc = "done"
    /\ blocksize = DEFAULT_BLOCKSIZE
    /\ Len(groups) >= 2
    /\ Len(sections) >= 2
    /\ Len(Flatten(groups)) < Len(Flatten(sections))
    /\ \E i \in 1..Len(groups) : \E j, k \in 1..Len(groups[i]) :
          groups[i][j] = "a" /\ groups[i][k] = "b"

\* C3: every returned block is no longer than the block size, or is made
\* (newlines disregarded) of part of one chapter text that is itself longer
\* than the block size.
C3_GroupingBound ==
    gpc = "done" =>
        \A i \in 1..Len(groups) :
            \/ Len(groups[i]) <= blocksize
            \/ \E j \in 1..Len(sections) :
                  /\ Len(sections[j]) > blocksize
                  /\ IsPartOf(StripNL(groups[i]), StripNL(sections[j]))

\* C10: no returned block is shorter than the minimum block size, unless it
\* is the only block or merging it with either neighbouring block (joined
\* by a newline) would exceed the block size.
C10_MinimumBlockSize ==
    gpc = "done" =>
        \A i \in 1..Len(groups) :
            \/ Len(groups[i]) >= MIN_BLOCKSIZE
            \/ Len(groups) = 1
            \/ \A n \in {i - 1, i + 1} \cap (1..Len(groups)) :
                  Len(groups[i]) + 1 + Len(groups[n]) > blocksize

-----------------------------------------------------------------------------
(* Properties of group_sections of src/summd.py (specification SpecSummd) *)

\* C8: when the input is exhausted with no block emitted and a non-empty
\* current block, group_sections returns exactly that one block and does
\* not fail.
C8_SoleBlock ==
    [][ (gpc = "loop" /\ sections' = sections /\ groups = <<>> /\ curr_group # <<>>)
        => (gpc' = "done" /\ groups' = <<curr_group>>) ]_vars

-----------------------------------------------------------------------------
(* Properties of the batch driver (specification SpecBatch) *)

\* C9: a failure of one file never aborts or skips the files and paths
\* that remain: the program stops only when nothing is left to visit.
C9_FailureIsolation ==
    bpc # "main" => (todo = <<>> /\ walk = <<>>)

-----------------------------------------------------------------------------
(* Title normalisation (specification SpecLine) *)

NoOuterWhitespace(t) ==
    t = <<>> \/ (t[1] \notin Whitespace /\ t[Len(t)] \notin Whitespace)

\* r is whitespace, then a run of '#', then whitespace (each possibly empty)
IsClosingRun(r) ==
    \E a \in 0..Len(r) : \E b \in a..Len(r) :
        /\ \A k \in 1..a : r[k] \in Whitespace
        /\ \A k \in (a + 1)..b : r[k] = "#"
        /\ \A k \in (b + 1)..Len(r) : r[k] \in Whitespace

\* r is at least one whitespace, then at least one '#', then whitespace
IsSpacedClosingRun(r) ==
    \E a \in 1..Len(r) : \E b \in (a + 1)..Len(r) :
        /\ \A k \in 1..a : r[k] \in Whitespace
        /\ \A k \in (a + 1)..b : r[k] = "#"
        /\ \A k \in (b + 1)..Len(r) : r[k] \in Whitespace

\* the text of a heading line after its marker of 0-3 spaces and n '#'
AfterMarker(l, n) ==
    LET k == CHOOSE i \in 0..3 : (\A j \in 1..i : l[j] = " ") /\ l[i + 1] = "#"
    IN  SubSeq(l, k + n + 1, Len(l))

\* C11 as stated: the title of a heading line has no leading or trailing
\* whitespace and does not end with '#'; after a marker followed by
\* nothing, whitespace or closing hashes only it is the empty string.
C11_TitleNeverEndsWithHash ==
    (lpc = "done" /\ line.heading_level > 0) =>
        /\ line.heading_title # None
        /\ NoOuterWhitespace(line.heading_title)
        /\ line.heading_title # <<>>
              => line.heading_title[Len(line.heading_title)] # "#"
        /\ IsClosingRun(AfterMarker(line.full_line, line.heading_level))
              => line.heading_title = <<>>

\* C11 amended: the title of a heading line is a part of the text after
\* the marker, preceded by whitespace only and followed by whitespace, one
\* run of '#' and whitespace only; it has no leading or trailing
\* whitespace; it ends with '#' only when whitespace separates that '#' from
\* the closing run; after a marker followed by nothing, whitespace or one
\* run of closing hashes only it is the empty string, not None.
C11_TitleNormalised ==
    (lpc = "done" /\ line.heading_level > 0) =>
        LET rest == AfterMarker(line.full_line, line.heading_level)
            title == line.heading_title
        IN  /\ title # None
            /\ NoOuterWhitespace(title)
            /\ \E p \in 0..Len(rest) :
                  /\ p + Len(title) <= Len(rest)
                  /\ \A k \in 1..p : rest[k] \in Whitespace
                  /\ SubSeq(rest, p + 1, p + Len(title)) = title
                  /\ IsClosingRun(SubSeq(rest, p + Len(title) + 1, Len(rest)))
                  /\ (title # <<>> /\ title[Len(title)] = "#")
                        => IsSpacedClosingRun(SubSeq(rest, p + Len(title) + 1, Len(rest)))
            /\ IsClosingRun(rest) => title = <<>>

\* '# a# #' style: a title that keeps a '#' because only the closing run
\* was stripped
C11_Witness ==
    /\ lpc = "done"
    /\ line.heading_level = 1
    /\ line.heading_title = <<"a", "#">>
    /\ line.full_line[Len(line.full_line)] = "#"

-----------------------------------------------------------------------------
(* Properties of the summarisation loop (specification SpecSumm) *)

EndsWith(str, suffix) ==
    /\ Len(str) >= Len(suffix)
    /\ SubSeq(str, Len(str) - Len(suffix) + 1, Len(str)) = suffix

\* parts[1], two newlines, parts[2], two newlines, ..., parts[n]
RECURSIVE PartsInOrder(_, _)
PartsInOrder(parts, n) ==
    IF n = 0 THEN <<>>
    ELSE IF n = 1 THEN parts[1]
    ELSE PartsInOrder(parts, n - 1) \o <<NL, NL>> \o parts[n]

\* C12: the calls are issued one at a time and in block order: the i-th
\* call is made for the i-th block, a call is made only when every earlier
\* call has returned, and each summary is the reply to the call of its
\* block; when summarize returns, there is one summary per block and the
\* final summary is the summaries joined in block order.
C12_SummaryOrder ==
    /\ Len(calls) <= Len(text_chunks)
    /\ Len(calls) = Len(accumulated_summaries)
                        + (IF pending # None \/ mpc = "raised" THEN 1 ELSE 0)
    /\ \A i \in 1..Len(calls) : EndsWith(calls[i], text_chunks[i])
    /\ \A i \in 1..Len(accumulated_summaries) :
          \E r \in Replies :
              accumulated_summaries[i] = <<"summary(">> \o calls[i] \o <<")", r>>
    /\ mpc = "done" =>
          /\ Len(calls) = Len(text_chunks)
          /\ Len(accumulated_summaries) = Len(text_chunks)
          /\ final_summary =
                PartsInOrder(accumulated_summaries, Len(accumulated_summaries))

\* summarize returned after three calls for three blocks, the first and
\* the last block being different
C12_Witness ==
    /\ mpc = "done"
    /\ Len(text_chunks) = 3
    /\ Len(calls) = 3
    /\ text_chunks[1] # text_chunks[3]
    /\ accumulated_summaries[1] # accumulated_summaries[3]

\* C13: in recursive mode the user message of the call for block i >= 2 is
\* the summaries of the blocks 1..i-1, in order, followed by block i; the
\* message of the first call, and of every call in independent mode, is
\* the block alone with no summary.
C13_RecursiveContext ==
    \A i \in 1..Len(calls) :
        calls[i] =
            IF summarize_recursively /\ i >= 2
            THEN <<PREVIOUS_SUMMARIES, NL, NL>>
                 \o PartsInOrder(accumulated_summaries, i - 1)
                 \o <<NL, NL, TEXT_TO_SUMMARIZE_NEXT, NL, NL>> \o text_chunks[i]
            ELSE <<SUMMARISE, NL>> \o text_chunks[i]

\* the third call of a recursive run, made with two earlier summaries
C13_Witness ==
    /\ summarize_recursively
    /\ Len(calls) = 3
    /\ Len(accumulated_summaries) >= 2
    /\ accumulated_summaries[1] # accumulated_summaries[2]

-----------------------------------------------------------------------------
(* Headings deeper than max_level (specification Spec) *)

\* the level of a line that is 0-3 spaces, n '#', then nothing, a space or a
\* tab; 0 for any other line
LevelOf(l) ==
    IF \E n \in 1..MAX_HEADING_LEVEL : IsATX(l, n)
    THEN CHOOSE n \in 1..MAX_HEADING_LEVEL : IsATX(l, n)
    ELSE 0

\* C14: a heading line of a level above max_level starts no chapter and
\* leaves the parent tracking as it is: scanning it yields nothing, keeps the
\* current heading and the recorded parents and adds the line to the
\* current chapter; no level above max_level is ever recorded, the title of
\* such a line is in no chapter's parent_headings, and every yielded
\* chapter's heading has a level of at most max_level.
C14_DeepHeadings ==
    /\ [][ (spc = "loop" /\ text' # text /\ LevelOf(text'[Len(text')]) > max_level)
           => /\ chapters' = chapters
              /\ curr_heading_line' = curr_heading_line
              /\ curr_parent_headings' = curr_parent_headings
              /\ curr_lines' = Append(curr_lines, text'[Len(text')]) ]_vars
    /\ [](spc # "idle" =>
            /\ curr_heading_line.heading_level <= max_level
            /\ \A l \in (max_level + 1)..MAX_HEADING_LEVEL :
                  curr_parent_headings[l] = None
            /\ \A i \in 1..Len(chapters) :
                  /\ chapters[i].heading.heading_level <= max_level
                  /\ Len(chapters[i].parent_headings) < max_level
                  /\ \A k \in 1..Len(chapters[i].parent_headings) :
                        chapters[i].parent_headings[k] # <<"D">>)

\* a heading of level 4 sits in the body of a chapter and a later chapter
\* has a parent
C14_Witness ==
    /\ spc = "done"
    /\ \E i \in 1..Len(chapters) :
          /\ \E j \in 2..Len(chapters[i].text) : LevelOf(chapters[i].text[j]) > max_level
          /\ \E k \in (i + 1)..Len(chapters) : chapters[k].parent_headings # <<>>

-----------------------------------------------------------------------------
(* Properties of split_block (specification SpecSplit) *)

\* str has a newline among its first n characters
NewlineWithin(str, n) == \E i \in 1..Min(n, Len(str)) : str[i] = NL

\* C15: every iteration of split_block either cuts the remaining text at
\* one of its newlines (the text is the piece, that newline and the new
\* remainder) or, when the text has no newline inside the window of limit
\* characters, emits it whole; a piece therefore ends where a line ends.
C15_CutsAtNewlines ==
    [][ (kpc = "loop" /\ pieces' # pieces) =>
          LET piece == pieces'[Len(pieces')] IN
          /\ pieces' = Append(pieces, piece)
          /\ IF NewlineWithin(rem_block, limit)
             THEN rem_block = piece \o <<NL>> \o rem_block'
             ELSE piece = rem_block /\ rem_block' = <<>>
      ]_vars

\* a text cut once at a newline, the rest emitted whole although longer
\* than the limit
C15_Witness ==
    /\ kpc = "done"
    /\ Len(pieces) = 2
    /\ block = pieces[1] \o <<NL>> \o pieces[2]
    /\ Len(pieces[2]) > limit

-----------------------------------------------------------------------------
(* C16 (specification Spec) *)

\* C16: of the chapters split_by_heading yields only the first can have no
\* heading, and it has none exactly when the first input line does not
\* start a chapter; every chapter with a heading has that heading line as
\* the first of its lines; every chapter has at least one line unless the
\* input is empty, and an empty input gives one chapter with no heading
\* and no line.
C16_ChapterShape ==
    /\ \A i \in 1..Len(chapters) :
          /\ (chapters[i].heading = NoLine) =>
                (i = 1 /\ (text = <<>> \/ ~StartsChapter(text, 1, max_level)))
          /\ (chapters[i].heading # NoLine) =>
                /\ Len(chapters[i].text) >= 1
                /\ chapters[i].text[1] = chapters[i].heading.full_line
                /\ (i = 1 => (text # <<>> /\ StartsChapter(text, 1, max_level)))
          /\ (text # <<>>) => Len(chapters[i].text) >= 1
    /\ (spc = "done" /\ text = <<>>) =>
          chapters = << [parent_headings |-> <<>>, heading |-> NoLine,
                         text |-> <<>>] >>

\* a text whose first chapter has no heading and whose second has one
C16_Witness ==
    /\ spc = "done"
    /\ Len(chapters) >= 2
    /\ chapters[1].heading = NoLine
    /\ chapters[2].heading # NoLine
    /\ Len(chapters[2].text) >= 2

-----------------------------------------------------------------------------
(* Line structure of the blocks (specification SpecGroup) *)

\* the non-empty lines of a string, in order
RECURSIVE LinesFrom(_, _)
LinesFrom(str, cur) ==
    IF str = <<>> THEN (IF cur = <<>> THEN <<>> ELSE <<cur>>)
    ELSE IF Head(str) = NL
         THEN (IF cur = <<>> THEN <<>> ELSE <<cur>>) \o LinesFrom(Tail(str), <<>>)
         ELSE LinesFrom(Tail(str), Append(cur, Head(str)))
NonEmptyLines(str) == LinesFrom(str, <<>>)

RECURSIVE BlockLines(_)
BlockLines(blocks) ==
    IF blocks = <<>> THEN <<>>
    ELSE NonEmptyLines(Head(blocks)) \o BlockLines(Tail(blocks))

EndsWithNewline(str) == str # <<>> /\ str[Len(str)] = NL

\* C17: when every chapter text ends with a newline, the lines of the
\* returned blocks, block after block, are the lines of the chapter texts:
\* no two input lines are merged into one line of a block and the first
\* line of a chapter starts its block or follows a newline.
C17_LinesPreserved ==
    (gpc = "done" /\ \A j \in 1..Len(sections) : EndsWithNewline(sections[j]))
        => BlockLines(groups) = NonEmptyLines(Flatten(sections))


\* C18 as stated: after a chapter text s is appended, the current block is
\* longer than blocksize only if s alone is longer than blocksize.
C18_OnlyOversizedChapter ==
    [][ (gpc = "loop" /\ sections' # sections /\ Len(appended') > blocksize)
          => Len(sections'[Len(sections')]) > blocksize ]_vars

\* C18, amended: after a chapter text s is appended, the current block is
\* longer than blocksize only if s alone is longer than blocksize or the
\* current block before the append was non-empty and no longer than
\* MIN_BLOCKSIZE, and so was not flushed; a chapter no longer than
\* blocksize that meets an empty current block, or one longer than
\* MIN_BLOCKSIZE, is not cut in that iteration: it becomes, or is added
\* whole to, the current block.
C18_SplitTrigger ==
    [][ (gpc = "loop" /\ sections' # sections) =>
          LET s == sections'[Len(sections')] IN
          /\ Len(appended') > blocksize =>
                \/ Len(s) > blocksize
                \/ (0 < Len(curr_group) /\ Len(curr_group) <= MIN_BLOCKSIZE)
          /\ (Len(s) <= blocksize
                /\ (curr_group = <<>> \/ Len(curr_group) > MIN_BLOCKSIZE)) =>
                \/ (groups' = groups /\ curr_group' = curr_group \o s)
                \/ (groups' = Append(groups, curr_group) /\ curr_group' = s)
      ]_vars

\* a chapter that fits in a block was appended to a short current block and
\* the result was force-split
C18_Witness ==
    /\ gpc = "loop"
    /\ sections # <<>>
    /\ Len(sections[Len(sections)]) <= blocksize
    /\ Len(appended) > blocksize
    /\ Len(groups) >= 1

-----------------------------------------------------------------------------
(* Sizes of the pieces of split_block (specification SpecSplit) *)

\* C19: every piece split_block produces is no longer than the limit or is
\* one single line, with no newline before its last character; the lines
\* after an over-long line are split off into pieces of their own.
C19_LongPiecesAreSingleLines ==
    \A i \in 1..Len(pieces) :
        \/ Len(pieces[i]) <= limit
        \/ \A k \in 1..(Len(pieces[i]) - 1) : pieces[i][k] # NL

\* C20: split_block cuts only while the remaining text is longer than the
\* limit; a remainder that fits is not cut again and is returned unchanged
\* as the last piece.
C20_StopsWhenRemainderFits ==
    [][ (kpc = "loop" /\ pieces' # pieces /\ Len(rem_block) <= limit)
          => (pieces' = Append(pieces, rem_block) /\ rem_block' = <<>>) ]_vars

-----------------------------------------------------------------------------
(* The flush of group_sections (specification SpecGroup) *)

\* C21: when appending the next chapter text would make the current block
\* longer than blocksize, the current block is flushed (it becomes the next
\* completed block and the chapter text starts a new current block) if and
\* only if its length is at least MIN_BLOCKSIZE; stated for a non-empty
\* current block.
C21_FlushThreshold ==
    [][ (gpc = "loop" /\ sections' # sections /\ curr_group # <<>>
           /\ Len(curr_group \o sections'[Len(sections')]) > blocksize)
          => ( Len(curr_group) >= MIN_BLOCKSIZE
                 <=> /\ Len(groups') > Len(groups)
                     /\ groups'[Len(groups) + 1] = curr_group
                     /\ appended' = sections'[Len(sections')] ) ]_vars

-----------------------------------------------------------------------------
(* The position of the cut of split_block (specification SpecSplit) *)

\* the offsets, counted from 0 and at most n, of the newlines of str
NewlineOffsets(str, n) == { k \in 0..n : k < Len(str) /\ str[k + 1] = NL }
MaxOf(S) == CHOOSE k \in S : \A j \in S : j <= k

\* C22: each prefix split_block cuts off is the longest prefix of the
\* remaining text that ends just before a newline and is no longer than the
\* limit: the cut is at the last newline at or before offset limit, a
\* newline exactly at offset limit included.
C22_CutPosition ==
    [][ (kpc = "loop" /\ pieces' # pieces
           /\ NewlineOffsets(rem_block, limit) # {})
          => LET k == MaxOf(NewlineOffsets(rem_block, limit)) IN
             /\ pieces'[Len(pieces')] = SubSeq(rem_block, 1, k)
             /\ rem_block' = SubSeq(rem_block, k + 2, Len(rem_block)) ]_vars

-----------------------------------------------------------------------------
(* Termination of split_block (specification SpecSplitFair) *)

\* C23: every call of split_block returns: each iteration of its loop makes
\* the remaining text strictly shorter (or empties it), also when the text
\* starts with a newline, so the loop is left after finitely many
\* iterations.
C23_Termination ==
    /\ [][ (kpc = "loop" /\ rem_block # <<>>)
             => Len(rem_block') < Len(rem_block) ]_vars
    /\ <>(kpc = "done")

\* a finished call on a text that starts with a newline and was cut twice
C23_Witness ==
    /\ kpc = "done"
    /\ block[1] = NL
    /\ Len(pieces) >= 3
    /\ rem_block = <<>>

-----------------------------------------------------------------------------
(* Fence lines (specification Spec) *)

\* the line has a fence marker behind leading whitespace, or at column 0
IsTrimmedFenceLine(l) ==
    \E k \in 0..Len(l) :
        /\ \A i \in 1..k : l[i] \in Whitespace
        /\ IsFenceLine(SubSeq(l, k + 1, Len(l)))

\* C24: a line is a fence line exactly when one of the two markers is at
\* its column 0, so a marker behind a space is not one; after every line
\* within_fence is true exactly when the number of fence lines scanned so
\* far is odd, whichever marker each of them has.
C24_FenceToggle ==
    /\ text # <<>> =>
          (is_fence(Line(text[Len(text)])) <=> IsFenceLine(text[Len(text)]))
    /\ spc # "idle" => (within_fence <=> FenceAfter(text, Len(text)))

\* a fence opened by one marker and closed by the other, then an indented
\* marker that opens nothing
C24_Witness ==
    /\ Len(text) = 3
    /\ text[1] = <<BQ, BQ, BQ>>
    /\ text[2] = <<"~", "~", "~">>
    /\ text[3] = <<" ", BQ, BQ, BQ>>
    /\ ~within_fence

\* C25: within_fence is toggled on every line whose start, after trimming
\* leading whitespace, is a fence marker: it is true exactly when the
\* number of such lines scanned so far is odd.
C25_TrimmedFenceToggle ==
    spc # "idle" =>
        (within_fence <=>
            Cardinality({ i \in 1..Len(text) : IsTrimmedFenceLine(text[i]) }) % 2 = 1)


\* C26: split_by_heading, which toggles within_fence on a fence line and
\* then tests it, starts a chapter at exactly the lines at which a segmenter
\* that tests the fence state as it was before the toggle of the line
\* would: the lines that are headings of a level up to max_level scanned
\* while the number of fence lines before them is even; a fence line is
\* never the start of a chapter.
C26_FenceBeforeToggle ==
    [][ (spc = "loop" /\ text' # text) =>
          LET l == text'[Len(text')]
              boundary == /\ curr_lines' = <<l>>
                          /\ (curr_lines # <<>> \/ curr_heading_line' # curr_heading_line)
              reference == /\ ~FenceAfter(text, Len(text))
                           /\ LevelOf(l) \in 1..max_level
          IN  /\ boundary <=> reference
              /\ boundary => /\ ~IsFenceLine(l)
                             /\ curr_heading_line'.full_line = l
              /\ ~boundary => /\ curr_lines' = Append(curr_lines, l)
                              /\ chapters' = chapters
                              /\ curr_heading_line' = curr_heading_line
      ]_vars

\* a heading inside a fence started no chapter, the heading after the
\* closing fence line did
C26_Witness ==
    /\ spc = "done"
    /\ Len(text) = 4
    /\ IsFenceLine(text[1]) /\ IsFenceLine(text[3])
    /\ LevelOf(text[2]) = 1 /\ LevelOf(text[4]) = 1
    /\ Len(chapters) = 2
    /\ chapters[1].text = SubSeq(text, 1, 3)
    /\ chapters[2].text = <<text[4]>>

-----------------------------------------------------------------------------
(* The block size of group_sections (specification SpecGroup) *)

\* C27: the overflow test and the force-split of group_sections both use
\* the blocksize argument: when the current block is longer than blocksize
\* after a chapter text is appended, the completed blocks and the new
\* current block are the pieces of that block split with limit blocksize,
\* whatever the default block size of the module is.
C27_ArgumentGovernsSplit ==
    [][ (gpc = "loop" /\ sections' # sections /\ Len(appended') > blocksize)
          => \E g \in {groups, Append(groups, curr_group)} :
                groups' \o <<curr_group'>> = g \o split_block(appended', blocksize)
      ]_vars

\* C28: once main() has applied a context value, a grouping made with the
\* default block size, as summarize makes it, tests overflow against
\* int(1.5 * NUM_CTX), the value of BLOCKSIZE that output_md uses, and
\* takes its minimum block size from the same NUM_CTX.
C28_ConfigurationPropagation ==
    (gpc \in {"loop", "done"} /\ blocksize = DEFAULT_BLOCKSIZE) =>
        /\ blocksize = BlockSizeOf(NUM_CTX)
        /\ blocksize = BLOCKSIZE
        /\ MIN_BLOCKSIZE = MinBlockSizeOf(NUM_CTX)

\* C29: when at least one chapter text is non-empty, no block that
\* group_sections returns is the empty string.
C29_NoEmptyBlock ==
    (gpc = "done" /\ \E j \in 1..Len(sections) : sections[j] # <<>>)
        => \A i \in 1..Len(groups) : groups[i] # <<>>

-----------------------------------------------------------------------------
(* Dropped chunks (specification SpecComb) *)

\* the indices, counted from 0, of the chunks longer than max_chunksize
TooLong == { i \in 0..(Len(chunks) - 1) : Len(chunks[i + 1]) > max_chunksize }

\* the indices 0..n-1 that are not in S, in increasing order
RECURSIVE KeptFrom(_, _, _)
KeptFrom(i, n, S) ==
    IF i >= n THEN <<>>
    ELSE (IF i \in S THEN <<>> ELSE <<i>>) \o KeptFrom(i + 1, n, S)

\* C30: when chunk_on_delimiter returns, dropped_chunk_count is the number
\* of chunks left out because they are longer than max_chunksize, the
\* warning was printed exactly when there is such a chunk, and the other
\* chunks are, in input order, each in exactly one output block.
C30_DroppedChunkAccounting ==
    cpc = "done" =>
        /\ dropped_chunk_count = Cardinality(TooLong)
        /\ warned <=> TooLong # {}
        /\ Flatten(output_indices) = KeptFrom(0, Len(chunks), TooLong)

====
